---- MODULE Spec2Model ----
(***************************************************************************)
(* Model of slackbot_command_parse (sb-command-parser.py).                 *)
(*                                                                         *)
(* A Python str is a sequence of one-character strings; a Python value is  *)
(* tagged with its type (PyStr, PyInt) so that '' and 0 stay distinct; a   *)
(* Python dict is a function from its keys to tagged values.  Python's     *)
(* 0-based index k is index k+1 here.                                      *)
(***************************************************************************)
EXTENDS Integers, Sequences, FiniteSets, TLC

VARIABLES input_line_of_text, begins_with, pc, parsed_input, raised, ret,
          fault, ncalls, memo

vars == <<input_line_of_text, begins_with, pc, parsed_input, raised, ret,
          fault, ncalls, memo>>

(***************************************************************************)
(* Python values                                                           *)
(***************************************************************************)
PyStr(s) == [str |-> s]
PyInt(n) == [int |-> n]

\* ret_dict = {}
EmptyDict == << >>

col_command == "Command"
col_taskname == "Task Name"
col_taskdesc == "Task Description"
col_priolevel == "Priority Level"
col_percent == "Percent Completion"

priority_level_list == {0, 1, 2}

\* range(0,101)
percent_range_through_101 == 0 .. 101
percent_range == 0 .. 100

CREATE == <<"c", "r", "e", "a", "t", "e">>
UPDATE == <<"u", "p", "d", "a", "t", "e">>
SUSPEND == <<"s", "u", "s", "p", "e", "n", "d">>
ABANDON == <<"a", "b", "a", "n", "d", "o", "n">>
SLACKBOT == <<"/", "s", "l", "a", "c", "k", "b", "o", "t">>

(***************************************************************************)
(* shlex.split(s): shlex(s, posix=True), whitespace_split=True,            *)
(* commenters=''.  The lexer state is ' ' (between tokens), 'a' (in a      *)
(* word), a quote character, or the escape character.                      *)
(***************************************************************************)
whitespace == {" ", "\t", "\r", "\n"}
quotes == {"'", "\""}
escape == {"\\"}
escapedquotes == {"\""}

TokErr == [err |-> TRUE, toks |-> << >>]
TokOk(out) == [err |-> FALSE, toks |-> out]

Emit(out, token, quoted) ==
    IF token # << >> \/ quoted THEN Append(out, token) ELSE out

RECURSIVE read_token(_, _, _, _, _, _, _)
read_token(s, i, state, token, quoted, escapedstate, out) ==
    IF i > Len(s)
    THEN IF state \in quotes \/ state \in escape
         THEN TokErr
         ELSE TokOk(Emit(out, token, quoted))
    ELSE LET nextchar == s[i] IN
         IF state = " "
         THEN IF nextchar \in whitespace
              THEN read_token(s, i + 1, " ", token, quoted, escapedstate, out)
              ELSE IF nextchar \in escape
              THEN read_token(s, i + 1, nextchar, token, quoted, "a", out)
              ELSE IF nextchar \in quotes
              THEN read_token(s, i + 1, nextchar, token, quoted, escapedstate, out)
              ELSE read_token(s, i + 1, "a", <<nextchar>>, quoted, escapedstate, out)
         ELSE IF state \in quotes
         THEN IF nextchar = state
              THEN read_token(s, i + 1, "a", token, TRUE, escapedstate, out)
              ELSE IF nextchar \in escape /\ state \in escapedquotes
              THEN read_token(s, i + 1, nextchar, token, TRUE, state, out)
              ELSE read_token(s, i + 1, state, Append(token, nextchar), TRUE,
                              escapedstate, out)
         ELSE IF state \in escape
         THEN LET kept == IF /\ escapedstate \in quotes
                             /\ nextchar # state
                             /\ nextchar # escapedstate
                          THEN Append(token, state)
                          ELSE token
              IN read_token(s, i + 1, escapedstate, Append(kept, nextchar),
                            quoted, escapedstate, out)
         ELSE \* state = "a"
              IF nextchar \in whitespace
              THEN read_token(s, i + 1, " ", << >>, FALSE, " ",
                              Emit(out, token, quoted))
              ELSE IF nextchar \in quotes
              THEN read_token(s, i + 1, nextchar, token, quoted, escapedstate, out)
              ELSE IF nextchar \in escape
              THEN read_token(s, i + 1, nextchar, token, quoted, "a", out)
              ELSE read_token(s, i + 1, "a", Append(token, nextchar), quoted,
                              escapedstate, out)

shlex_split(s) == read_token(s, 1, " ", << >>, FALSE, " ", << >>)

(***************************************************************************)
(* str.split(sep) for a one-character separator                            *)
(***************************************************************************)
RECURSIVE split_from(_, _, _, _, _)
split_from(s, sep, i, cur, out) ==
    IF i > Len(s) THEN Append(out, cur)
    ELSE IF s[i] = sep
         THEN split_from(s, sep, i + 1, << >>, Append(out, cur))
         ELSE split_from(s, sep, i + 1, Append(cur, s[i]), out)

split(s, sep) == split_from(s, sep, 1, << >>, << >>)

(***************************************************************************)
(* int(s) for a str: surrounding whitespace is stripped, one optional      *)
(* sign, then decimal digits, single underscores allowed between digits;   *)
(* anything else raises ValueError.                                        *)
(***************************************************************************)
DigitChars == <<"0", "1", "2", "3", "4", "5", "6", "7", "8", "9">>
IsDigit(c) == \E k \in 1 .. 10 : DigitChars[k] = c
DigitVal(c) == (CHOOSE k \in 1 .. 10 : DigitChars[k] = c) - 1

RECURSIVE lstrip(_)
lstrip(s) == IF s # << >> /\ Head(s) \in whitespace THEN lstrip(Tail(s)) ELSE s

RECURSIVE rstrip(_)
rstrip(s) ==
    IF s # << >> /\ s[Len(s)] \in whitespace
    THEN rstrip(SubSeq(s, 1, Len(s) - 1))
    ELSE s

IntErr == [err |-> TRUE, val |-> 0]
IntOk(n) == [err |-> FALSE, val |-> n]

\* prev is "start", "digit" or "under": what the previous character was
RECURSIVE digits_from(_, _, _, _)
digits_from(s, i, acc, prev) ==
    IF i > Len(s)
    THEN IF prev = "digit" THEN IntOk(acc) ELSE IntErr
    ELSE IF IsDigit(s[i])
         THEN digits_from(s, i + 1, 10 * acc + DigitVal(s[i]), "digit")
         ELSE IF s[i] = "_" /\ prev = "digit"
              THEN digits_from(s, i + 1, acc, "under")
              ELSE IntErr

int(s) ==
    LET t == rstrip(lstrip(s))
        signed == t # << >> /\ Head(t) \in {"+", "-"}
        body == IF signed THEN Tail(t) ELSE t
        mag == digits_from(body, 1, 0, "start")
    IN IF mag.err THEN IntErr
       ELSE IF signed /\ Head(t) = "-" THEN IntOk(0 - mag.val)
       ELSE IntOk(mag.val)

(***************************************************************************)
(* The body of the try block.  An outcome is the exception that is         *)
(* propagating ("none" when none is) and the current value of ret_dict.    *)
(***************************************************************************)
Ok(d) == [exc |-> "none", ret_dict |-> d]
Raise(kind, o) == [exc |-> kind, ret_dict |-> o.ret_dict]

Record(COMMAND, tn, td, pl, pct) ==
    (col_command :> PyStr(COMMAND)) @@ (col_taskname :> PyStr(tn)) @@
    (col_taskdesc :> PyStr(td)) @@ (col_priolevel :> pl) @@
    (col_percent :> pct)

\* ret_dict = {}
DeclareRetDictStale(previous) == previous
DeclareRetDict(previous) == EmptyDict

\* parsed_input[0] == begins_with
PrefixMatchesStartsWith(tokens, prefix) ==
    /\ Len(tokens[1]) >= Len(prefix)
    /\ SubSeq(tokens[1], 1, Len(prefix)) = prefix
PrefixMatches(tokens, prefix) == tokens[1] = prefix

\* parsed_input[2]
ParamTokenLast(tokens) == tokens[Len(tokens)]
ParamToken(tokens) == tokens[3]

\* if parsed_input[1] == 'create': ...
CreateBlockNoDescCheck(tokens, o) ==
    IF o.exc # "none" THEN o
    ELSE IF Len(tokens) < 2 THEN Raise("IndexError", o)
    ELSE IF tokens[2] # CREATE THEN o
    ELSE IF Len(tokens) < 3 THEN Raise("IndexError", o)
    ELSE LET param_list == split(ParamToken(tokens), ":") IN
         IF Len(param_list) # 4 THEN o
         ELSE IF Len(param_list[1]) = 0 THEN o
         ELSE LET pl == int(param_list[3]) IN
              IF pl.err THEN Raise("ValueError", o)
              ELSE IF pl.val \notin priority_level_list THEN o
              ELSE LET pct == int(param_list[4]) IN
                   IF pct.err THEN Raise("ValueError", o)
                   ELSE IF pct.val \notin percent_range THEN o
                   ELSE Ok(Record(CREATE, param_list[1], param_list[2],
                                  PyInt(pl.val), PyInt(pct.val)))

CreateBlock(tokens, o) ==
    IF o.exc # "none" THEN o
    ELSE IF Len(tokens) < 2 THEN Raise("IndexError", o)
    ELSE IF tokens[2] # CREATE THEN o
    ELSE IF Len(tokens) < 3 THEN Raise("IndexError", o)
    ELSE LET param_list == split(ParamToken(tokens), ":") IN
         IF Len(param_list) # 4 THEN o
         ELSE IF Len(param_list[1]) = 0 \/ Len(param_list[2]) = 0 THEN o
         ELSE LET pl == int(param_list[3]) IN
              IF pl.err THEN Raise("ValueError", o)
              ELSE IF pl.val \notin priority_level_list THEN o
              ELSE LET pct == int(param_list[4]) IN
                   IF pct.err THEN Raise("ValueError", o)
                   ELSE IF pct.val \notin percent_range THEN o
                   ELSE Ok(Record(CREATE, param_list[1], param_list[2],
                                  PyInt(pl.val), PyInt(pct.val)))

\* if parsed_input[1] == 'update': ...
UpdateBlockDropsBadPriority(tokens, o) ==
    IF o.exc # "none" THEN o
    ELSE IF Len(tokens) < 2 THEN Raise("IndexError", o)
    ELSE IF tokens[2] # UPDATE THEN o
    ELSE IF Len(tokens) < 3 THEN Raise("IndexError", o)
    ELSE LET param_list == split(ParamToken(tokens), ":") IN
         IF Len(param_list) # 4 THEN o
         ELSE IF Len(param_list[1]) = 0 THEN o
         ELSE LET pct == int(param_list[4]) IN
              IF pct.err THEN Raise("ValueError", o)
              ELSE IF pct.val \notin percent_range THEN o
              ELSE LET pl == int(param_list[3]) IN
                   IF ~pl.err /\ pl.val \in priority_level_list
                   THEN Ok(Record(UPDATE, param_list[1], param_list[2],
                                  PyInt(pl.val), PyInt(pct.val)))
                   ELSE Ok(Record(UPDATE, param_list[1], param_list[2],
                                  PyStr(<< >>), PyInt(pct.val)))

UpdateBlock(tokens, o) ==
    IF o.exc # "none" THEN o
    ELSE IF Len(tokens) < 2 THEN Raise("IndexError", o)
    ELSE IF tokens[2] # UPDATE THEN o
    ELSE IF Len(tokens) < 3 THEN Raise("IndexError", o)
    ELSE LET param_list == split(ParamToken(tokens), ":") IN
         IF Len(param_list) # 4 THEN o
         ELSE IF Len(param_list[1]) = 0 THEN o
         ELSE LET pct == int(param_list[4]) IN
              IF pct.err THEN Raise("ValueError", o)
              ELSE IF pct.val \notin percent_range THEN o
              ELSE IF Len(param_list[3]) > 0
              THEN LET pl == int(param_list[3]) IN
                   IF pl.err THEN Raise("ValueError", o)
                   ELSE IF pl.val \in priority_level_list
                   THEN Ok(Record(UPDATE, param_list[1], param_list[2],
                                  PyInt(pl.val), PyInt(pct.val)))
                   ELSE o
              ELSE Ok(Record(UPDATE, param_list[1], param_list[2],
                             PyStr(<< >>), PyInt(pct.val)))

\* if parsed_input[1] == 'suspend': ...
SuspendBlockFirstField(tokens, o) ==
    IF o.exc # "none" THEN o
    ELSE IF Len(tokens) < 2 THEN Raise("IndexError", o)
    ELSE IF tokens[2] # SUSPEND THEN o
    ELSE IF Len(tokens) < 3 THEN Raise("IndexError", o)
    ELSE LET param_list == split(ParamToken(tokens), ":") IN
         IF Len(param_list) < 1 THEN o
         ELSE IF Len(param_list[1]) > 0
         THEN Ok(Record(SUSPEND, param_list[1], << >>, PyStr(<< >>),
                        PyStr(<< >>)))
         ELSE o

SuspendBlock(tokens, o) ==
    IF o.exc # "none" THEN o
    ELSE IF Len(tokens) < 2 THEN Raise("IndexError", o)
    ELSE IF tokens[2] # SUSPEND THEN o
    ELSE IF Len(tokens) < 3 THEN Raise("IndexError", o)
    ELSE LET param_list == split(ParamToken(tokens), ":") IN
         IF Len(param_list) # 1 THEN o
         ELSE IF Len(param_list[1]) > 0
         THEN Ok(Record(SUSPEND, param_list[1], << >>, PyStr(<< >>),
                        PyStr(<< >>)))
         ELSE o

\* if parsed_input[1] == 'abandon': ...
AbandonBlock(tokens, o) ==
    IF o.exc # "none" THEN o
    ELSE IF Len(tokens) < 2 THEN Raise("IndexError", o)
    ELSE IF tokens[2] # ABANDON THEN o
    ELSE IF Len(tokens) < 3 THEN Raise("IndexError", o)
    ELSE LET param_list == split(ParamToken(tokens), ":") IN
         IF Len(param_list) # 1 THEN o
         ELSE IF Len(param_list[1]) > 0
         THEN Ok(Record(ABANDON, param_list[1], << >>, PyStr(<< >>),
                        PyStr(<< >>)))
         ELSE o

\* try: ... return ret_dict
TryBody(line, prefix, ret_dict) ==
    LET lexed == shlex_split(line) IN
    IF lexed.err THEN Raise("ValueError", Ok(ret_dict))
    ELSE IF Len(lexed.toks) < 1 THEN Raise("IndexError", Ok(ret_dict))
    ELSE IF ~PrefixMatches(lexed.toks, prefix) THEN Ok(ret_dict)
    ELSE AbandonBlock(lexed.toks,
           SuspendBlock(lexed.toks,
             UpdateBlock(lexed.toks,
               CreateBlock(lexed.toks, Ok(ret_dict)))))

\* except: return ret_dict
\* The result is what the caller sees: the returned dict, or the exception
\* that reached it.
Returned(d) == [fault |-> FALSE, value |-> d]
Propagated(kind) == [fault |-> TRUE, value |-> ("raise" :> [exc |-> kind])]

ExceptValueErrorOnly(o) ==
    IF o.exc = "ValueError" THEN Returned(o.ret_dict) ELSE Propagated(o.exc)
ExceptIndexErrorOnly(o) ==
    IF o.exc = "IndexError" THEN Returned(o.ret_dict) ELSE Propagated(o.exc)
ExceptHandler(o) == Returned(o.ret_dict)

slackbot_command_parse(line, prefix, previous) ==
    LET ret_dict == DeclareRetDict(previous)
        o == TryBody(line, prefix, ret_dict)
    IN IF o.exc = "none" THEN Returned(o.ret_dict) ELSE ExceptHandler(o)

(***************************************************************************)
(* Input lines.  The lines are built from the shapes of good_test_lines    *)
(* and badd_test_lines: a first token, a command word, and a parameter     *)
(* token of colon-separated fields, with every combination of the field    *)
(* texts below.                                                            *)
(***************************************************************************)
MaxExtra == 1
MaxCalls == 3

SP == <<" ">>
COLON == <<":">>
SB == <<"/", "s", "b">>
TA == <<"T", "A">>

Quoted(q, s) == <<q>> \o s \o <<q>>

NameTexts == {<< >>, TA}

QuotedContents == {<<"d", " ", "e">>, <<"d", ":", "e">>, << >>}

DescTexts ==
    {<< >>, <<"d">>, <<"d", " ", "e">>,
     <<"'", "d", " ", "e", "\"">>, <<"\"", "d", " ", "e", "'">>}
    \cup {Quoted(q, c) : q \in quotes, c \in QuotedContents}

PlTexts ==
    {<< >>, <<"0">>, <<"1">>, <<"2">>, <<"3">>, <<"x">>, <<"-", "1">>,
     <<"+", "2">>, <<"0", "2">>, <<"'", " ", "1", "'">>}

PcTexts ==
    {<< >>, <<"0">>, <<"4", "0">>, <<"1", "0", "0">>, <<"1", "0", "1">>,
     <<"2", "0", "0">>, <<"x">>, <<"1", "_", "0">>, <<"-", "1">>}

FourFields(n, d, pl, pct) == n \o COLON \o d \o COLON \o pl \o COLON \o pct

FourFieldParams ==
    {FourFields(n, d, pl, pct) :
        n \in NameTexts, d \in DescTexts, pl \in PlTexts, pct \in PcTexts}

SmallParams ==
    {<< >>, TA, FourFields(TA, <<"d">>, <<"1">>, <<"1", "0">>),
     FourFields(TA, << >>, << >>, <<"4", "0">>)}

OddParams ==
    SmallParams \cup
    {<<"'", "'">>, <<":">>, TA \o <<":">>, TA \o <<":", ":">>,
     TA \o <<":", ":", ":">>, TA \o <<":", "4", "0">>,
     TA \o <<":", ":", "4", "0">>, TA \o <<":", ":", "3", ":">>,
     TA \o <<":", ":", ":", "1", "0", "2">>,
     TA \o <<":", "d", ":", "1", ":", "1", "0", ":", "4", "5">>,
     <<"'", "T", " ", "A", "'">>, <<"'", "T", "A">>}

Commands == {CREATE, UPDATE, SUSPEND, ABANDON}

SecondTexts ==
    Commands \cup {<<"C", "r", "e", "a", "t", "e">>, <<"c", "r", "e", "a", "t">>}

FirstTexts ==
    {SLACKBOT, SLACKBOT \o <<"t">>, Tail(SLACKBOT),
     <<"/", "S", "l", "a", "c", "k", "b", "o", "t">>, SB}

Separators == {SP, << >>, <<" ", "\t">>}

RECURSIVE ExtraTokens(_)
ExtraTokens(n) == IF n = 0 THEN << >> ELSE <<" ", "z">> \o ExtraTokens(n - 1)

Extras == {ExtraTokens(n) : n \in 0 .. MaxExtra}

MainLines ==
    {SLACKBOT \o SP \o c \o SP \o p \o x :
        c \in {CREATE, UPDATE}, p \in FourFieldParams, x \in Extras}
    \cup
    {SLACKBOT \o SP \o c \o SP \o p \o x :
        c \in Commands, p \in OddParams, x \in Extras}

VariantLines ==
    {f \o s1 \o c \o s2 \o p :
        f \in FirstTexts, s1 \in Separators, c \in SecondTexts,
        s2 \in Separators, p \in SmallParams}

ShortLines ==
    {<< >>, SP, SLACKBOT, SB, <<"\\">>, <<"'">>,
     SLACKBOT \o SP \o SUSPEND \o SP \o TA \o <<"\\">>,
     SLACKBOT \o SP \o SUSPEND \o SP \o <<"T", "\\", " ", "A">>}

Prefixes == {SLACKBOT, SB}

Inputs ==
    {[line |-> l, prefix |-> SLACKBOT] : l \in MainLines}
    \cup
    {[line |-> l, prefix |-> b] : l \in VariantLines \cup ShortLines, b \in Prefixes}

CallLines ==
    {SLACKBOT \o SP \o CREATE \o SP \o FourFields(TA, <<"d">>, <<"1">>, <<"1", "0">>),
     SLACKBOT \o SP \o CREATE \o SP \o FourFields(TA, <<"d">>, <<"3">>, <<"1", "0">>),
     SLACKBOT \o SP \o SUSPEND \o SP \o TA,
     SLACKBOT \o SP \o UPDATE \o SP \o <<"'", "T", "A">>,
     SB \o SP \o UPDATE \o SP \o FourFields(TA, << >>, << >>, <<"4", "0">>)}

CallInputs == {[line |-> l, prefix |-> b] : l \in CallLines, b \in Prefixes}

(***************************************************************************)
(* The state machine: a caller with a line and a prefix in hand calls      *)
(* slackbot_command_parse (Call) and, in SpecCalls, goes on to call it     *)
(* again with another line (Invoke).  memo keeps, for each input parsed so *)
(* far, the result its first parse gave and the number of that call.       *)
(***************************************************************************)
InitWith(inputs) ==
    /\ \E i \in inputs :
          /\ input_line_of_text = i.line
          /\ begins_with = i.prefix
    /\ pc = "ready"
    /\ parsed_input = TokOk(<< >>)
    /\ raised = "none"
    /\ ret = EmptyDict
    /\ fault = FALSE
    /\ ncalls = 0
    /\ memo = {}

Init == InitWith(Inputs)

InitCalls == InitWith(CallInputs)

Seen(line, prefix) == \E m \in memo : m.line = line /\ m.prefix = prefix

Call ==
    /\ pc = "ready"
    /\ LET r == slackbot_command_parse(input_line_of_text, begins_with, ret)
       IN /\ ret' = r.value
          /\ fault' = r.fault
          /\ memo' = IF Seen(input_line_of_text, begins_with)
                     THEN memo
                     ELSE memo \cup {[line |-> input_line_of_text,
                                      prefix |-> begins_with,
                                      result |-> r.value,
                                      first |-> ncalls + 1]}
    /\ parsed_input' = shlex_split(input_line_of_text)
    /\ raised' = TryBody(input_line_of_text, begins_with, DeclareRetDict(ret)).exc
    /\ pc' = "returned"
    /\ ncalls' = ncalls + 1
    /\ UNCHANGED <<input_line_of_text, begins_with>>

Invoke ==
    /\ pc = "returned"
    /\ ncalls < MaxCalls
    /\ \E i \in CallInputs :
          /\ input_line_of_text' = i.line
          /\ begins_with' = i.prefix
    /\ pc' = "ready"
    /\ UNCHANGED <<parsed_input, raised, ret, fault, ncalls, memo>>

Next == Call

NextCalls == Call \/ Invoke

Spec == Init /\ [][Next]_vars

SpecCalls == InitCalls /\ [][NextCalls]_vars

(***************************************************************************)
(* Properties                                                              *)
(***************************************************************************)
Cols == {col_command, col_taskname, col_taskdesc, col_priolevel, col_percent}

Absent == PyStr(<< >>)

IsStr(v) == DOMAIN v = {"str"}
IsIntIn(v, S) == DOMAIN v = {"int"} /\ v.int \in S

Lexed == ~parsed_input.err
Toks == parsed_input.toks

\* the colon-separated fields of the third token
Fields == split(Toks[3], ":")

ParsesInto(s, S) == ~int(s).err /\ int(s).val \in S

ValidRecord(d) ==
    /\ DOMAIN d = Cols
    /\ d[col_command] \in {PyStr(c) : c \in Commands}
    /\ IsStr(d[col_taskname]) /\ d[col_taskname].str # << >>
    /\ IsStr(d[col_taskdesc])
    /\ d[col_command] = PyStr(CREATE) =>
          /\ d[col_taskdesc].str # << >>
          /\ IsIntIn(d[col_priolevel], {0, 1, 2})
          /\ IsIntIn(d[col_percent], 0 .. 100)
    /\ d[col_command] = PyStr(UPDATE) =>
          /\ d[col_priolevel] = Absent \/ IsIntIn(d[col_priolevel], {0, 1, 2})
          /\ IsIntIn(d[col_percent], 0 .. 100)
    /\ d[col_command] \in {PyStr(SUSPEND), PyStr(ABANDON)} =>
          /\ d[col_taskdesc] = Absent
          /\ d[col_priolevel] = Absent
          /\ d[col_percent] = Absent

\* C2: a returned value is the empty dictionary or a record with all five
\* keys that satisfies the rules of its command; no partial record.
C2_EmptyOrFullyValid ==
    pc = "returned" => ret = EmptyDict \/ ValidRecord(ret)

C2_Witness ==
    /\ pc = "returned"
    /\ ret # EmptyDict
    /\ ret[col_command] = PyStr(UPDATE)
    /\ ret[col_priolevel] = Absent
    /\ ret[col_percent] = PyInt(100)

CreateAccepts ==
    /\ Len(Toks) >= 3
    /\ Len(Fields) = 4
    /\ Fields[1] # << >>
    /\ Fields[2] # << >>
    /\ ParsesInto(Fields[3], {0, 1, 2})
    /\ ParsesInto(Fields[4], 0 .. 100)

\* C3: for a create line with the right prefix, a record is returned exactly
\* when the third token has 4 fields, name and description non-empty,
\* priority an integer in {0,1,2} and percent an integer in [0,100]; the
\* record carries those four values; otherwise the result is empty.
C3_CreateIff ==
    (pc = "returned" /\ Lexed /\ Len(Toks) >= 2 /\ Toks[1] = begins_with
        /\ Toks[2] = CREATE) =>
        IF CreateAccepts
        THEN ret = Record(CREATE, Fields[1], Fields[2],
                          PyInt(int(Fields[3]).val), PyInt(int(Fields[4]).val))
        ELSE ret = EmptyDict

C3_Witness ==
    /\ pc = "returned"
    /\ Lexed /\ Len(Toks) >= 3 /\ Toks[1] = begins_with /\ Toks[2] = CREATE
    /\ CreateAccepts
    /\ ret # EmptyDict
    /\ ret[col_priolevel] = PyInt(0)
    /\ ret[col_percent] = PyInt(100)

UpdateCase ==
    /\ pc = "returned" /\ Lexed /\ Len(Toks) >= 3
    /\ Toks[1] = begins_with /\ Toks[2] = UPDATE
    /\ Len(Fields) = 4
    /\ Fields[1] # << >>
    /\ ParsesInto(Fields[4], 0 .. 100)

\* C4: for an update line with 4 fields, a name and a percent in [0,100]:
\* an empty priority field gives a record whose priority is the absent
\* marker (not the integer 0) and whose description is field 1 as given;
\* a non-empty priority field gives a record with that integer when it
\* parses into {0,1,2} and the empty result otherwise.
C4_UpdatePriority ==
    UpdateCase =>
        /\ Absent # PyInt(0)
        /\ IF Fields[3] = << >>
           THEN ret = Record(UPDATE, Fields[1], Fields[2], Absent,
                             PyInt(int(Fields[4]).val))
           ELSE IF ParsesInto(Fields[3], {0, 1, 2})
           THEN ret = Record(UPDATE, Fields[1], Fields[2],
                             PyInt(int(Fields[3]).val), PyInt(int(Fields[4]).val))
           ELSE ret = EmptyDict

C4_Witness ==
    /\ UpdateCase
    /\ Fields[2] = << >>
    /\ Fields[3] = << >>
    /\ ret # EmptyDict
    /\ ret[col_priolevel] = Absent
    /\ ret[col_taskdesc] = PyStr(<< >>)

HasColon(s) == \E k \in 1 .. Len(s) : s[k] = ":"

\* C5: for a suspend or abandon line with the right prefix, a record is
\* returned exactly when the third token is non-empty and has no ':'; it
\* has that token as its name and the other three fields absent.
C5_NameOnlyIff ==
    (pc = "returned" /\ Lexed /\ Len(Toks) >= 2 /\ Toks[1] = begins_with
        /\ Toks[2] \in {SUSPEND, ABANDON}) =>
        IF Len(Toks) >= 3 /\ Toks[3] # << >> /\ ~HasColon(Toks[3])
        THEN ret = Record(Toks[2], Toks[3], << >>, Absent, Absent)
        ELSE ret = EmptyDict

C5_Witness ==
    /\ pc = "returned" /\ Lexed /\ Len(Toks) >= 3
    /\ Toks[1] = begins_with /\ Toks[2] = SUSPEND
    /\ Toks[3] = TA
    /\ ret # EmptyDict
    /\ ret[col_taskname] = PyStr(TA)

\* C6: a record is returned only when the first token equals the prefix
\* argument exactly and the second token is exactly one of the four
\* command words; the record's Command is that second token.
C6_PrefixAndCommandExact ==
    (pc = "returned" /\ ret # EmptyDict) =>
        /\ Lexed
        /\ Len(Toks) >= 2
        /\ Toks[1] = begins_with
        /\ Toks[2] \in Commands
        /\ DOMAIN ret = Cols
        /\ ret[col_command] = PyStr(Toks[2])

C6_Witness ==
    /\ pc = "returned"
    /\ begins_with = SB
    /\ Lexed /\ Len(Toks) >= 2 /\ Toks[1] = SB
    /\ ret # EmptyDict
    /\ ret[col_command] = PyStr(UPDATE)

\* C7: when tokenizing fails, or yields fewer than 3 tokens, the result is
\* the empty dictionary.
C7_TooFewTokensIsEmpty ==
    (pc = "returned" /\ (~Lexed \/ Len(Toks) < 3)) =>
        fault = FALSE /\ ret = EmptyDict

C7_Witness ==
    /\ pc = "returned"
    /\ Lexed
    /\ Len(Toks) = 2
    /\ Toks[1] = begins_with
    /\ Toks[2] \in Commands
    /\ ret = EmptyDict

\* C8: a create or update line whose description is enclosed in single or
\* double quotes and contains spaces or colons gives a record whose
\* description is the quoted text without the quotes.
C8_QuotedDescriptionKept ==
    \A c \in {CREATE, UPDATE}, q \in quotes, d \in QuotedContents \ {<< >>} :
        ( /\ pc = "returned"
          /\ begins_with = SLACKBOT
          /\ input_line_of_text =
                SLACKBOT \o SP \o c \o SP \o
                FourFields(TA, Quoted(q, d), <<"1">>, <<"4", "0">>) )
        => ret = Record(c, TA, d, PyInt(1), PyInt(40))

\* C9: after any earlier calls, parsing a (line, prefix) returns what its
\* first parse returned.
C9_SameInputSameResult ==
    pc = "returned" =>
        \A m \in memo :
            (m.line = input_line_of_text /\ m.prefix = begins_with)
                => ret = m.result

C9_Witness ==
    /\ pc = "returned"
    /\ ret = EmptyDict
    /\ \E m, k \in memo :
          /\ m.line = input_line_of_text /\ m.prefix = begins_with
          /\ m.first < k.first /\ k.first < ncalls
          /\ k.result # EmptyDict

RECURSIVE JoinQuoted(_)
JoinQuoted(tokens) ==
    IF tokens = << >> THEN << >>
    ELSE IF Len(tokens) = 1 THEN Quoted("'", tokens[1])
    ELSE Quoted("'", tokens[1]) \o SP \o JoinQuoted(Tail(tokens))

FirstThree == SubSeq(Toks, 1, 3)

\* C10: for a line of at least 3 tokens the result is the result for the
\* line made of its first three tokens alone.
C10_OnlyFirstThreeTokens ==
    ( /\ pc = "returned" /\ Lexed /\ Len(Toks) >= 3
      /\ \A k \in 1 .. 3 : \A j \in 1 .. Len(Toks[k]) : Toks[k][j] # "'" ) =>
        /\ shlex_split(JoinQuoted(FirstThree)) = TokOk(FirstThree)
        /\ ret = slackbot_command_parse(JoinQuoted(FirstThree), begins_with,
                                        EmptyDict).value

C10_Witness ==
    /\ pc = "returned" /\ Lexed /\ Len(Toks) > 3
    /\ Toks[2] = CREATE
    /\ ret # EmptyDict

====
